---- MODULE Spec2Model ----
(***************************************************************************)
(* Transaction -> display-row translation of casper-deploy-generator:      *)
(* the legacy dispatcher parse_phase (src/src/parser.rs) and the           *)
(* new-format dispatcher parse_v1_meta (src/src/parser/v1.rs), with the    *)
(* argument-extraction and value-formatting helpers they share.            *)
(*                                                                         *)
(* Every operation is a pure function of its input.  A state is one call:  *)
(* the operation, its input, and (once the call has run) the outcome, the  *)
(* returned value and the formatter the dispatcher routed to.              *)
(*                                                                         *)
(* Strings that the code inspects character by character (canonical value  *)
(* strings, formatted amounts) are sequences of one-character strings;     *)
(* Str flattens them into the strings stored in rows.  A U512 is the       *)
(* sequence of its decimal digits, most significant first.                 *)
(***************************************************************************)
EXTENDS Integers, Sequences, FiniteSets, TLC

VARIABLES op, input, outcome, cause, route, result

vars == <<op, input, outcome, cause, route, result>>

(***************************************************************************)
(* Bounds of the model.                                                    *)
(***************************************************************************)
\* argument names no extractor recognises, available to a transaction
NumOtherNames == 1
\* longest decimal representation handed to format_amount
MaxDigits == 6
\* longest argument list handed to parse_runtime_args in every insertion order
MaxArgs == 2

(***************************************************************************)
(* Strings.                                                                *)
(***************************************************************************)
RECURSIVE Str(_)
Str(cs) == IF cs = <<>> THEN "" ELSE Head(cs) \o Str(Tail(cs))

DigitChar(d) == ToString(d)

IsDigitChar(c) == \E d \in 0..9 : DigitChar(d) = c

DigitOf(c) == CHOOSE d \in 0..9 : DigitChar(d) = c

(***************************************************************************)
(* Display rows (crate::ledger::Element).                                  *)
(***************************************************************************)
ElementRegular(label, value) == [label |-> label, value |-> value, expert |-> FALSE]

ElementExpert(label, value) == [label |-> label, value |-> value, expert |-> TRUE]

AsExpert(e) == [e EXCEPT !.expert = TRUE]

\* Display of TxnPhase
PhaseLabel(phase) == phase

(***************************************************************************)
(* Results of a call: the rows it returns, or a panic.                     *)
(***************************************************************************)
Ok(elems) == [panic |-> FALSE, cause |-> "none", elems |-> elems]

Panic(why) == [panic |-> TRUE, cause |-> why, elems |-> <<>>]

\* elements.extend(r): r is evaluated after the rows so far were built
Extend(acc, r) ==
    IF acc.panic THEN acc
    ELSE IF r.panic THEN r
    ELSE Ok(acc.elems \o r.elems)

(***************************************************************************)
(* Named arguments.  RuntimeArgs is the list of NamedArg in insertion      *)
(* order; names are unique.  A CLValue is modelled by its canonical        *)
(* string (cl_value_to_string is the identity on it).                      *)
(***************************************************************************)
ARG_AMOUNT == "amount"
ARG_ID == "id"
ARG_SOURCE == "source"
ARG_TARGET == "target"
ARG_TO == "to"

OtherNamePool == <<"memo", "note", "payload">>

OtherNames == {OtherNamePool[i] : i \in 1..NumOtherNames}

KnownNames == {ARG_AMOUNT, "delegator", ARG_ID, ARG_SOURCE, ARG_TARGET, ARG_TO, "validator"}

ArgNames == KnownNames \cup OtherNames

\* Ord of String on the names in use: ascending byte order
NameOrder ==
    <<"amount", "delegator", "id", "memo", "note", "payload",
      "source", "target", "to", "validator">>

Rank(n) == CHOOSE i \in 1..Len(NameOrder) : NameOrder[i] = n

StrLess(a, b) == Rank(a) < Rank(b)

NamesOf(ra) == {ra[i].name : i \in 1..Len(ra)}

cl_value_to_string(v) == v

\* RuntimeArgs::get
HasArg(ra, key) == \E i \in 1..Len(ra) : ra[i].name = key

GetArg(ra, key) == ra[CHOOSE i \in 1..Len(ra) : ra[i].name = key /\ \A j \in 1..(i-1) : ra[j].name # key].value

\* BTreeMap<String, CLValue>: the entries in ascending key order
RECURSIVE SortedNames(_)
SortedNames(S) ==
    IF S = {} THEN <<>>
    ELSE LET least == CHOOSE n \in S : \A o \in S : o = n \/ StrLess(n, o)
         IN  <<least>> \o SortedNames(S \ {least})

\* From<RuntimeArgs> for BTreeMap: a later entry replaces an earlier one of the same name
LastValue(ra, key) ==
    ra[CHOOSE i \in 1..Len(ra) : ra[i].name = key /\ \A j \in (i+1)..Len(ra) : ra[j].name # key].value

\* ToBTreeMap with the entries left in insertion order
ToBTreeMapUnsorted(ra) == ra

ToBTreeMap(ra) ==
    LET keys == SortedNames(NamesOf(ra))
    IN  [i \in 1..Len(keys) |-> [name |-> keys[i], value |-> LastValue(ra, keys[i])]]

\* BTreeMap::remove
TreeRemove(tree, key) == SelectSeq(tree, LAMBDA e : e.name # key)

\* From<BTreeMap> for RuntimeArgs
FromBTreeMap(tree) == tree

RemoveAmountArg(args) == FromBTreeMap(TreeRemove(ToBTreeMap(args), ARG_AMOUNT))

\* RemoveTransferArgs with the removal of id left out
RemoveTransferArgsKeepsId(args) ==
    FromBTreeMap(
        TreeRemove(TreeRemove(TreeRemove(TreeRemove(
            ToBTreeMap(args), ARG_TO), ARG_SOURCE), ARG_TARGET), ARG_AMOUNT))

RemoveTransferArgs(args) ==
    FromBTreeMap(
        TreeRemove(TreeRemove(TreeRemove(TreeRemove(TreeRemove(
            ToBTreeMap(args), ARG_TO), ARG_SOURCE), ARG_TARGET), ARG_AMOUNT), ARG_ID))

(***************************************************************************)
(* Generic argument dump.                                                  *)
(***************************************************************************)
RECURSIVE DumpFrom(_, _)
DumpFrom(named_args, idx) ==
    IF idx >= Len(named_args) THEN <<>>
    ELSE LET entry == named_args[idx + 1]
         IN  << ElementExpert("arg-" \o ToString(idx) \o "-name", entry.name),
                ElementExpert("arg-" \o ToString(idx) \o "-val",
                              Str(cl_value_to_string(entry.value))) >>
             \o DumpFrom(named_args, idx + 1)

ParseRuntimeArgs(ra) == DumpFrom(ToBTreeMap(ra), 0)

(***************************************************************************)
(* Amounts.                                                                *)
(***************************************************************************)
\* thousands::Separable::separate_with_spaces on the decimal digits
RECURSIVE SeparateWithSpaces(_)
SeparateWithSpaces(digits) ==
    IF Len(digits) <= 3 THEN [i \in 1..Len(digits) |-> DigitChar(digits[i])]
    ELSE SeparateWithSpaces(SubSeq(digits, 1, Len(digits) - 3))
         \o <<" ">>
         \o [i \in 1..3 |-> DigitChar(digits[Len(digits) - 3 + i])]

\* FormatAmount with the groups of three counted from the most significant digit
RECURSIVE SeparateFromLeft(_)
SeparateFromLeft(digits) ==
    IF Len(digits) <= 3 THEN [i \in 1..Len(digits) |-> DigitChar(digits[i])]
    ELSE [i \in 1..3 |-> DigitChar(digits[i])]
         \o <<" ">>
         \o SeparateFromLeft(SubSeq(digits, 4, Len(digits)))

FormatAmountFromLeft(motes) == SeparateFromLeft(motes) \o <<" ", "m", "o", "t", "e", "s">>

FormatAmount(motes) == SeparateWithSpaces(motes) \o <<" ", "m", "o", "t", "e", "s">>

\* U512::from_dec_str: an error on any character that is no decimal digit
RECURSIVE StripZeros(_)
StripZeros(digits) ==
    IF Len(digits) > 1 /\ Head(digits) = 0 THEN StripZeros(Tail(digits)) ELSE digits

FromDecStr(s) ==
    IF \E i \in 1..Len(s) : ~IsDigitChar(s[i])
    THEN [ok |-> FALSE, val |-> <<>>]
    ELSE [ok |-> TRUE,
          val |-> StripZeros(IF s = <<>> THEN <<0>> ELSE [i \in 1..Len(s) |-> DigitOf(s[i])])]

Identity(el) == el

\* the closure f of parse_amount: from_dec_str(..).unwrap(), then format_amount
AmountClosure(amount_str) == FormatAmount(FromDecStr(amount_str).val)

\* parse_optional_arg with the identity transform: Option<Element> as a list of 0 or 1 rows
ParseOptionalArg(args, key, expert) ==
    IF HasArg(args, key)
    THEN LET value == Str(Identity(cl_value_to_string(GetArg(args, key))))
         IN  Ok(<< IF expert THEN ElementExpert(key, value) ELSE ElementRegular(key, value) >>)
    ELSE Ok(<<>>)

\* ParseAmount with a malformed amount skipped instead of unwrapped
ParseAmountLenient(args) ==
    IF HasArg(args, ARG_AMOUNT) /\ FromDecStr(cl_value_to_string(GetArg(args, ARG_AMOUNT))).ok
    THEN Ok(<< ElementRegular(ARG_AMOUNT,
                              Str(AmountClosure(cl_value_to_string(GetArg(args, ARG_AMOUNT))))) >>)
    ELSE Ok(<<>>)

\* parse_amount: parse_optional_arg with the unwrapping transform, Regular
ParseAmount(args) ==
    IF HasArg(args, ARG_AMOUNT)
    THEN LET amount_str == cl_value_to_string(GetArg(args, ARG_AMOUNT))
         IN  IF ~FromDecStr(amount_str).ok THEN Panic("amount")
             ELSE Ok(<< ElementRegular(ARG_AMOUNT, Str(AmountClosure(amount_str))) >>)
    ELSE Ok(<<>>)

ParseTransferArgs(args) ==
    Extend(Extend(Extend(Extend(
        ParseOptionalArg(args, ARG_TO, FALSE),
        ParseOptionalArg(args, ARG_SOURCE, TRUE)),
        ParseOptionalArg(args, ARG_TARGET, FALSE)),
        ParseAmount(args)),
        ParseOptionalArg(args, ARG_ID, TRUE))

(***************************************************************************)
(* Legacy transaction parser (src/src/parser.rs).                          *)
(*                                                                         *)
(* An ExecutableDeployItem is a record; the fields a variant does not      *)
(* carry hold a fixed filler.  Option<u32> is a list of 0 or 1 numbers.    *)
(***************************************************************************)
StoredVariants ==
    {"StoredContractByHash", "StoredContractByName",
     "StoredVersionedContractByHash", "StoredVersionedContractByName"}

ParseVersion(version) ==
    ElementExpert("version", IF version = <<>> THEN "latest" ELSE ToString(version[1]))

\* Debug form of the digest of the bytes
RECURSIVE BytesStr(_)
BytesStr(bytes) == IF bytes = <<>> THEN "" ELSE ToString(Head(bytes)) \o BytesStr(Tail(bytes))

HashOf(bytes) == "digest(" \o BytesStr(bytes) \o ")"

\* IsSystemPayment with the emptiness test negated
IsSystemPaymentNonEmpty(phase, module_bytes) == phase = "Payment" /\ Len(module_bytes) # 0

IsSystemPayment(phase, module_bytes) == phase = "Payment" /\ Len(module_bytes) = 0

Entrypoint(entry_point) == ElementExpert("entry-point", entry_point)

DeployType(phase, item) ==
    LET phase_label == PhaseLabel(phase)
    IN  CASE item.variant = "ModuleBytes" ->
               IF IsSystemPayment(phase, item.module_bytes)
               THEN << ElementRegular(phase_label, "system") >>
               ELSE << ElementRegular(phase_label, "contract"),
                       ElementRegular("Cntrct hash", HashOf(item.module_bytes)) >>
          [] item.variant = "StoredContractByHash" ->
               << ElementRegular(phase_label, "by-hash"),
                  ElementRegular("address", item.hash) >>
          [] item.variant = "StoredContractByName" ->
               << ElementRegular(phase_label, "by-name"),
                  ElementRegular("name", item.name) >>
          [] item.variant = "StoredVersionedContractByHash" ->
               << ElementRegular(phase_label, "by-hash-versioned"),
                  ElementRegular("address", item.hash),
                  ParseVersion(item.version) >>
          [] item.variant = "StoredVersionedContractByName" ->
               << ElementRegular(phase_label, "by-name-versioned"),
                  ElementRegular("name", item.name),
                  ParseVersion(item.version) >>
          [] item.variant = "Transfer" ->
               << ElementRegular(phase_label, "native transfer") >>

\* IsEntrypoint with an item that carries no entry point judged by its arguments
IsEntrypointByArgs(item, expected) ==
    IF item.variant \in {"ModuleBytes", "Transfer"}
    THEN expected = "delegate" /\ HasArg(item.args, "delegator") /\ HasArg(item.args, "validator")
    ELSE item.entry_point = expected

IsEntrypoint(item, expected) ==
    IF item.variant \in {"ModuleBytes", "Transfer"} THEN FALSE
    ELSE item.entry_point = expected

IsDelegate(item) == IsEntrypoint(item, "delegate")

IsUndelegate(item) == IsEntrypoint(item, "undelegate")

\* ParseAuction with the classification rows left at their own sensitivity
ParseAuctionKeepsSensitivity(item, kind) ==
    IF item.variant \in {"ModuleBytes", "Transfer"}
    THEN Panic("unexpected type for " \o kind)
    ELSE Extend(Extend(Extend(
             Ok(<< ElementRegular("Auction", kind) >> \o DeployType("Session", item)),
             ParseOptionalArg(item.args, "delegator", FALSE)),
             ParseOptionalArg(item.args, "validator", FALSE)),
             ParseAmount(item.args))

\* the body shared by parse_delegation and parse_undelegation
ParseAuction(item, kind) ==
    LET elements ==
            << ElementRegular("Auction", kind) >>
            \o [i \in 1..Len(DeployType("Session", item)) |->
                    AsExpert(DeployType("Session", item)[i])]
    IN  IF item.variant \in {"ModuleBytes", "Transfer"}
        THEN Panic("unexpected type for " \o kind)
        ELSE Extend(Extend(Extend(Ok(elements),
                 ParseOptionalArg(item.args, "delegator", FALSE)),
                 ParseOptionalArg(item.args, "validator", FALSE)),
                 ParseAmount(item.args))

ParseDelegation(item) == ParseAuction(item, "delegate")

ParseUndelegation(item) == ParseAuction(item, "undelegate")

\* parser.rs:339-343: the rows of the Transfer arm are bound to a new local
\* `elements`, which goes out of scope at the end of the arm
TransferArm(elements, args) ==
    LET inner == Extend(ParseTransferArgs(args),
                        Ok(ParseRuntimeArgs(RemoveTransferArgs(args))))
    IN  IF inner.panic THEN inner ELSE Ok(elements)

\* the value of a dispatcher: the formatter it handed the input to, and that
\* formatter's result
Routed(via, res) == [via |-> via, res |-> res]

\* ParsePhase with the classification rows of an auction item labelled by the
\* phase of the call
RelabelKind(res, phase) ==
    IF res.panic THEN res
    ELSE Ok([i \in 1..Len(res.elems) |->
                IF i = 2 THEN [res.elems[i] EXCEPT !.label = PhaseLabel(phase)]
                ELSE res.elems[i]])

ParsePhaseLabelsPhase(item, phase) ==
    IF IsDelegate(item) THEN Routed("parse_delegation", RelabelKind(ParseDelegation(item), phase))
    ELSE IF IsUndelegate(item)
    THEN Routed("parse_undelegation", RelabelKind(ParseUndelegation(item), phase))
    ELSE LET elements == DeployType(phase, item)
         IN  Routed("generic",
               CASE item.variant = "ModuleBytes" ->
                      IF IsSystemPayment(phase, item.module_bytes)
                      THEN Extend(Extend(Ok(elements), ParseAmount(item.args)),
                                  Ok(ParseRuntimeArgs(RemoveAmountArg(item.args))))
                      ELSE Extend(Ok(elements), Ok(ParseRuntimeArgs(item.args)))
                 [] item.variant \in StoredVariants ->
                      Extend(Ok(elements \o << Entrypoint(item.entry_point) >>),
                             Ok(ParseRuntimeArgs(item.args)))
                 [] item.variant = "Transfer" ->
                      TransferArm(elements, item.args))

ParsePhase(item, phase) ==
    IF IsDelegate(item) THEN Routed("parse_delegation", ParseDelegation(item))
    ELSE IF IsUndelegate(item) THEN Routed("parse_undelegation", ParseUndelegation(item))
    ELSE LET elements == DeployType(phase, item)
         IN  Routed("generic",
               CASE item.variant = "ModuleBytes" ->
                      IF IsSystemPayment(phase, item.module_bytes)
                      THEN Extend(Extend(Ok(elements), ParseAmount(item.args)),
                                  Ok(ParseRuntimeArgs(RemoveAmountArg(item.args))))
                      ELSE Extend(Ok(elements), Ok(ParseRuntimeArgs(item.args)))
                 [] item.variant \in StoredVariants ->
                      Extend(Ok(elements \o << Entrypoint(item.entry_point) >>),
                             Ok(ParseRuntimeArgs(item.args)))
                 [] item.variant = "Transfer" ->
                      TransferArm(elements, item.args))

(***************************************************************************)
(* New-format transaction parser (src/src/parser/v1.rs).                   *)
(*                                                                         *)
(* A TransactionV1 either decodes into a TransactionV1Meta or does not.    *)
(* meta.args is TransactionArgs: Named(RuntimeArgs) or Bytesrepr.          *)
(***************************************************************************)
AuctionEntryPoints == {"Delegate", "Undelegate", "Redelegate"}

V1IsSystemPayment(module_bytes) == Len(module_bytes) = 0

V1ParseVersion(version) ==
    ElementExpert("version", IF version = <<>> THEN "latest" ELSE ToString(version[1]))

V1Entrypoint(entry_point) == ElementExpert("entry-point", entry_point)

V1Type(item) ==
    CASE item.target.kind = "Native" -> <<>>
      [] item.target.kind = "Stored" ->
          (CASE item.target.id = "ByHash" ->
                  << ElementRegular("execution", "by-hash"),
                     ElementRegular("address", BytesStr(item.target.addr)) >>
             [] item.target.id = "ByName" ->
                  << ElementRegular("execution", "by-name"),
                     ElementRegular("name", item.target.name) >>
             [] item.target.id = "ByPackageHash" ->
                  << ElementRegular("execution", "by-hash-versioned"),
                     ElementRegular("address", BytesStr(item.target.addr)),
                     V1ParseVersion(item.target.version) >>
             [] item.target.id = "ByPackageName" ->
                  << ElementRegular("execution", "by-name-versioned"),
                     ElementRegular("name", item.target.name),
                     V1ParseVersion(item.target.version) >>)
      [] item.target.kind = "Session" ->
           IF V1IsSystemPayment(item.target.module_bytes) THEN <<>>
           ELSE << ElementRegular("execution", "contract"),
                   ElementRegular("Cntrct hash", HashOf(item.target.module_bytes)) >>

V1RemoveAmountArg(args) == FromBTreeMap(TreeRemove(ToBTreeMap(args), ARG_AMOUNT))

V1RemoveTransferArgs(args) ==
    FromBTreeMap(
        TreeRemove(TreeRemove(TreeRemove(TreeRemove(TreeRemove(
            ToBTreeMap(args), ARG_TO), ARG_SOURCE), ARG_TARGET), ARG_AMOUNT), ARG_ID))

\* parser::runtime_args::parse_runtime_args_v1: the generic dump
ParseRuntimeArgsV1(args) == DumpFrom(ToBTreeMap(args), 0)

\* parser::runtime_args::parse_fee: the amount as the fee row, Expert
ParseFee(args) ==
    IF HasArg(args, ARG_AMOUNT)
    THEN LET amount_str == cl_value_to_string(GetArg(args, ARG_AMOUNT))
         IN  IF ~FromDecStr(amount_str).ok THEN Panic("amount")
             ELSE Ok(<< ElementExpert("fee", Str(AmountClosure(amount_str))) >>)
    ELSE Ok(<<>>)

\* parser::v1::auction: the formatters of the staking entry points
V1ParseAuction(meta, kind) ==
    LET elements ==
            << ElementRegular("Auction", kind) >>
            \o [i \in 1..Len(V1Type(meta)) |-> AsExpert(V1Type(meta)[i])]
    IN  IF ~meta.named THEN Panic("args not named")
        ELSE Extend(Extend(Extend(Ok(elements),
                 ParseOptionalArg(meta.args, "delegator", FALSE)),
                 ParseOptionalArg(meta.args, "validator", FALSE)),
                 ParseAmount(meta.args))

V1ParseDelegation(meta) == V1ParseAuction(meta, "delegate")

V1ParseUndelegation(meta) == V1ParseAuction(meta, "undelegate")

V1ParseRedelegation(meta) == V1ParseAuction(meta, "redelegate")

\* NativeArm with every entry point handled as Transfer
NativeArmAnyEntryPoint(elements, meta) ==
    IF ~meta.named THEN Panic("args not named")
    ELSE Extend(Extend(Ok(elements), ParseTransferArgs(meta.args)),
                IF V1RemoveTransferArgs(meta.args) # <<>>
                THEN Ok(ParseRuntimeArgsV1(meta.args))
                ELSE Ok(<<>>))

\* v1.rs:94-106
NativeArm(elements, meta) ==
    IF ~meta.named THEN Panic("args not named")
    ELSE IF meta.entry_point = "Transfer"
    THEN LET args_sans_transfer == V1RemoveTransferArgs(meta.args)
         IN  Extend(Extend(Ok(elements), ParseTransferArgs(meta.args)),
                    IF args_sans_transfer # <<>>
                    THEN Ok(ParseRuntimeArgsV1(meta.args))
                    ELSE Ok(<<>>))
    ELSE Panic("unsupported entry point in native transaction")

\* v1.rs:107-112
StoredArm(elements, meta) ==
    IF ~meta.named THEN Panic("args not named")
    ELSE Extend(Extend(Ok(elements \o << V1Entrypoint(meta.entry_point) >>),
                       ParseAmount(meta.args)),
                Ok(ParseRuntimeArgsV1(meta.args)))

\* v1.rs:113-125
SessionArm(elements, meta) ==
    IF ~meta.named THEN Panic("args not named")
    ELSE IF V1IsSystemPayment(meta.target.module_bytes)
    THEN LET args_sans_amount == V1RemoveAmountArg(meta.args)
         IN  Extend(Extend(Ok(elements), ParseFee(meta.args)),
                    IF args_sans_amount # <<>>
                    THEN Ok(ParseRuntimeArgsV1(meta.args))
                    ELSE Ok(<<>>))
    ELSE Extend(Extend(Ok(elements), ParseAmount(meta.args)),
                Ok(ParseRuntimeArgsV1(meta.args)))

ParseV1Meta(v1) ==
    IF ~v1.decodable THEN Routed("none", Panic("field missing"))
    ELSE LET meta == v1.meta
         IN  CASE meta.entry_point = "Delegate" ->
                    Routed("parse_delegation", V1ParseDelegation(meta))
               [] meta.entry_point = "Undelegate" ->
                    Routed("parse_undelegation", V1ParseUndelegation(meta))
               [] meta.entry_point = "Redelegate" ->
                    Routed("parse_redelegation", V1ParseRedelegation(meta))
               [] OTHER ->
                    LET elements == V1Type(meta)
                    IN  Routed("generic",
                          CASE meta.target.kind = "Native" -> NativeArm(elements, meta)
                            [] meta.target.kind = "Stored" -> StoredArm(elements, meta)
                            [] meta.target.kind = "Session" -> SessionArm(elements, meta))

(***************************************************************************)
(* Inputs.                                                                 *)
(***************************************************************************)
Phases == {"Payment", "Session"}

\* canonical strings of the values an amount argument is given
AmountValues == { <<"1", "0", "0", "0">>, <<"5", "0", "0">>, <<"1", "2", "a">> }

\* canonical string of the value every other argument is given
ValueOf(name) ==
    CASE name = ARG_TO -> <<"X">>
      [] name = ARG_ID -> <<"7">>
      [] name = ARG_SOURCE -> <<"S">>
      [] name = ARG_TARGET -> <<"T">>
      [] name = "delegator" -> <<"D">>
      [] name = "validator" -> <<"V">>
      [] OTHER -> <<"m">>

NamedArg(name, amount) ==
    [name |-> name, value |-> IF name = ARG_AMOUNT THEN amount ELSE ValueOf(name)]

Reverse(seq) == [i \in 1..Len(seq) |-> seq[Len(seq) + 1 - i]]

\* the arguments named S, inserted in descending name order
ArgsOf(S, amount) ==
    LET keys == Reverse(SortedNames(S))
    IN  [i \in 1..Len(keys) |-> NamedArg(keys[i], amount)]

ArgSets ==
    {ArgsOf(S, <<"1", "0", "0", "0">>) : S \in SUBSET (ArgNames \ {ARG_AMOUNT})}
    \cup {ArgsOf(S \cup {ARG_AMOUNT}, a) :
            S \in SUBSET (ArgNames \ {ARG_AMOUNT}), a \in AmountValues}

ModuleBytesValues == { <<>>, <<7>> }

Versions == { <<>>, <<5>> }

ContractIds == {"auction", "other"}

LegacyEntryPoints == {"delegate", "undelegate", "call"}

Item(variant, module_bytes, id, version, entry_point, args) ==
    [variant |-> variant, module_bytes |-> module_bytes, hash |-> id, name |-> id,
     version |-> version, entry_point |-> entry_point, args |-> args]

LegacyItems ==
    {Item("ModuleBytes", b, "", <<>>, "", a) : b \in ModuleBytesValues, a \in ArgSets}
    \cup {Item("Transfer", <<>>, "", <<>>, "", a) : a \in ArgSets}
    \cup {Item(v, <<>>, c, <<>>, e, a) :
            v \in {"StoredContractByHash", "StoredContractByName"},
            c \in ContractIds, e \in LegacyEntryPoints, a \in ArgSets}
    \cup {Item(v, <<>>, c, n, e, a) :
            v \in {"StoredVersionedContractByHash", "StoredVersionedContractByName"},
            c \in ContractIds, n \in Versions, e \in LegacyEntryPoints, a \in ArgSets}

V1EntryPoints == {"Transfer", "Delegate", "Undelegate", "Redelegate", "AddBid", "call"}

Target(kind, id, addr, name, version, module_bytes) ==
    [kind |-> kind, id |-> id, addr |-> addr, name |-> name, version |-> version,
     module_bytes |-> module_bytes]

V1Targets ==
    {Target("Native", "", <<>>, "", <<>>, <<>>)}
    \cup {Target("Stored", "ByHash", <<1, 2>>, "", <<>>, <<>>),
          Target("Stored", "ByName", <<>>, "auction", <<>>, <<>>)}
    \cup {Target("Stored", "ByPackageHash", <<1, 2>>, "", n, <<>>) : n \in Versions}
    \cup {Target("Stored", "ByPackageName", <<>>, "auction", n, <<>>) : n \in Versions}
    \cup {Target("Session", "", <<>>, "", <<>>, b) : b \in ModuleBytesValues}

V1Inputs ==
    {[decodable |-> FALSE]}
    \cup {[decodable |-> TRUE,
           meta |-> [named |-> FALSE, args |-> <<>>, target |-> t, entry_point |-> e]] :
            t \in V1Targets, e \in V1EntryPoints}
    \cup {[decodable |-> TRUE,
           meta |-> [named |-> TRUE, args |-> a, target |-> t, entry_point |-> e]] :
            t \in V1Targets, e \in V1EntryPoints, a \in ArgSets}

\* argument lists of at most MaxArgs entries, in every insertion order
RECURSIVE ArgListsOfLen(_)
ArgListsOfLen(n) ==
    IF n = 0 THEN {<<>>}
    ELSE {Append(l, NamedArg(k, <<"1", "0", "0", "0">>)) :
            l \in ArgListsOfLen(n - 1), k \in ArgNames} 

ArgLists ==
    {l \in UNION {ArgListsOfLen(n) : n \in 0..MaxArgs} :
        \A i, j \in 1..Len(l) : i # j => l[i].name # l[j].name}
    \cup ArgSets
    \cup {Reverse(a) : a \in ArgSets}

\* the amounts of the test amount_space_separated (parser.rs:63-77)
TestAmounts ==
    { <<1>>, <<1, 0, 0, 0>>, <<1, 0, 0, 0, 0>>, <<1, 0, 0, 0, 0, 0, 0, 0, 0, 0, 0>> }

AmountDigits == {0, 1, 9}

RECURSIVE DigitSeqs(_)
DigitSeqs(n) ==
    IF n = 0 THEN {<<>>}
    ELSE {Append(l, d) : l \in DigitSeqs(n - 1), d \in AmountDigits}

\* U512 values: decimal representations without a leading zero
Amounts ==
    {m \in UNION {DigitSeqs(n) : n \in 1..MaxDigits} : Len(m) = 1 \/ m[1] # 0}
    \cup TestAmounts

(***************************************************************************)
(* The calls.                                                              *)
(***************************************************************************)
Pending(o, i) ==
    /\ op = o
    /\ input = i
    /\ outcome = "pending"
    /\ cause = "none"
    /\ route = "none"
    /\ result = <<>>

\* the consumed-key removals of parser.rs and of parser/v1.rs
RemovalOps ==
    {"remove_amount_arg", "remove_transfer_args",
     "v1::remove_amount_arg", "v1::remove_transfer_args"}

Init ==
    \/ \E item \in LegacyItems, phase \in Phases :
          Pending("parse_phase", [item |-> item, phase |-> phase])
    \/ \E v1 \in V1Inputs : Pending("parse_v1_meta", v1)
    \/ \E ra \in ArgLists : Pending("parse_runtime_args", ra)
    \/ \E motes \in Amounts : Pending("format_amount", motes)
    \/ \E args \in ArgLists, o \in RemovalOps : Pending(o, args)

\* a dispatcher returns its rows, or panics and returns nothing
Finish(r) ==
    /\ outcome' = IF r.res.panic THEN "panicked" ELSE "returned"
    /\ cause' = r.res.cause
    /\ route' = r.via
    /\ result' = r.res.elems
    /\ UNCHANGED <<op, input>>

CallParsePhase ==
    /\ op = "parse_phase"
    /\ outcome = "pending"
    /\ Finish(ParsePhase(input.item, input.phase))

CallParseV1Meta ==
    /\ op = "parse_v1_meta"
    /\ outcome = "pending"
    /\ Finish(ParseV1Meta(input))

CallParseRuntimeArgs ==
    /\ op = "parse_runtime_args"
    /\ outcome = "pending"
    /\ Finish(Routed("none", Ok(ParseRuntimeArgs(input))))

CallFormatAmount ==
    /\ op = "format_amount"
    /\ outcome = "pending"
    /\ Finish(Routed("none", Ok(FormatAmount(input))))

\* the removals take their argument by value and return the new mapping
CallRemoveAmountArg ==
    /\ op = "remove_amount_arg"
    /\ outcome = "pending"
    /\ Finish(Routed("none", Ok(RemoveAmountArg(input))))

CallRemoveTransferArgs ==
    /\ op = "remove_transfer_args"
    /\ outcome = "pending"
    /\ Finish(Routed("none", Ok(RemoveTransferArgs(input))))

CallV1RemoveAmountArg ==
    /\ op = "v1::remove_amount_arg"
    /\ outcome = "pending"
    /\ Finish(Routed("none", Ok(V1RemoveAmountArg(input))))

CallV1RemoveTransferArgs ==
    /\ op = "v1::remove_transfer_args"
    /\ outcome = "pending"
    /\ Finish(Routed("none", Ok(V1RemoveTransferArgs(input))))

Next ==
    \/ CallParsePhase
    \/ CallParseV1Meta
    \/ CallParseRuntimeArgs
    \/ CallFormatAmount
    \/ CallRemoveAmountArg
    \/ CallRemoveTransferArgs
    \/ CallV1RemoveAmountArg
    \/ CallV1RemoveTransferArgs

Spec == Init /\ [][Next]_vars

(***************************************************************************)
(* Vocabulary of the properties.                                           *)
(***************************************************************************)
Returned(o) == op = o /\ outcome = "returned"

Finished(o) == op = o /\ outcome # "pending"

\* the named arguments of the transaction of a dispatcher call
TxnArgs == IF op = "parse_phase" THEN input.item.args ELSE input.meta.args

TransferKeys == {ARG_TO, ARG_SOURCE, ARG_TARGET, ARG_AMOUNT, ARG_ID}

DumpNameLabels == {"arg-" \o ToString(i) \o "-name" : i \in 0..Cardinality(ArgNames)}

DumpValLabels == {"arg-" \o ToString(i) \o "-val" : i \in 0..Cardinality(ArgNames)}

IsDumpRow(r) == r.label \in DumpNameLabels \cup DumpValLabels

\* the rows of a generic dump found in a row sequence
DumpRows(rs) == SelectSeq(rs, IsDumpRow)

\* the argument names a generic dump in the row sequence lists
DumpedNames(rs) == {rs[i].value : i \in {j \in 1..Len(rs) : rs[j].label \in DumpNameLabels}}

\* row i of rs renders the argument n: a specialized row, or the name row of a dump pair
RendersArg(r, n) ==
    \/ r.label = n /\ n \in KnownNames
    \/ r.label = "fee" /\ n = ARG_AMOUNT
    \/ r.label \in DumpNameLabels /\ r.value = n

TimesRendered(rs, n) == Cardinality({i \in 1..Len(rs) : RendersArg(rs[i], n)})

\* C1: every named argument of a transaction a dispatcher accepts is rendered by
\* exactly one row group of the returned sequence: one specialized row or one
\* arg-i-name/arg-i-val pair, never both and never neither.
EveryArgRenderedOnce ==
    (Returned("parse_phase") \/ Returned("parse_v1_meta"))
        => \A n \in NamesOf(TxnArgs) : TimesRendered(result, n) = 1

\* the specialized transfer rows the arguments call for, built row by row
ExpectedTransferRows(args) ==
    (IF HasArg(args, ARG_TO)
        THEN << [label |-> "to", value |-> Str(GetArg(args, ARG_TO)), expert |-> FALSE] >>
        ELSE <<>>)
    \o (IF HasArg(args, ARG_SOURCE)
        THEN << [label |-> "source", value |-> Str(GetArg(args, ARG_SOURCE)), expert |-> TRUE] >>
        ELSE <<>>)
    \o (IF HasArg(args, ARG_TARGET)
        THEN << [label |-> "target", value |-> Str(GetArg(args, ARG_TARGET)), expert |-> FALSE] >>
        ELSE <<>>)
    \o (IF HasArg(args, ARG_AMOUNT)
        THEN << [label |-> "amount",
                 value |-> Str(FormatAmount(FromDecStr(GetArg(args, ARG_AMOUNT)).val)),
                 expert |-> FALSE] >>
        ELSE <<>>)
    \o (IF HasArg(args, ARG_ID)
        THEN << [label |-> "id", value |-> Str(GetArg(args, ARG_ID)), expert |-> TRUE] >>
        ELSE <<>>)

\* C2: for a legacy native transfer parse_phase returns the classification row,
\* then the specialized rows to, source, target, amount, id that are present, in
\* that order, then the dump of the arguments without those five keys; with
\* to=X, amount=1000, id=7 the rows after the classification row are
\* to=X, amount="1 000 motes", id=7 and nothing else.
LegacyTransferRows ==
    (Returned("parse_phase") /\ input.item.variant = "Transfer")
        => /\ Len(result) >= 1
           /\ result[1] = [label |-> input.phase, value |-> "native transfer", expert |-> FALSE]
           /\ Tail(result) = ExpectedTransferRows(input.item.args)
                             \o ParseRuntimeArgs(RemoveTransferArgs(input.item.args))
           /\ (/\ NamesOf(input.item.args) = {ARG_TO, ARG_AMOUNT, ARG_ID}
               /\ GetArg(input.item.args, ARG_AMOUNT) = <<"1", "0", "0", "0">>)
              => Tail(result) = << [label |-> "to", value |-> "X", expert |-> FALSE],
                                   [label |-> "amount", value |-> "1 000 motes", expert |-> FALSE],
                                   [label |-> "id", value |-> "7", expert |-> TRUE] >>

V1NativeTransfer ==
    /\ Returned("parse_v1_meta")
    /\ route = "generic"
    /\ input.meta.target.kind = "Native"
    /\ input.meta.entry_point = "Transfer"

\* C3: for a new-format native Transfer the rows are the transfer rows followed by
\* a dump of only the arguments left after removing to, source, target, amount, id:
\* no dump when nothing is left, and no dump row names one of the five keys.
V1TransferDumpsOnlyLeftovers ==
    V1NativeTransfer
        => /\ DumpedNames(result) = NamesOf(input.meta.args) \ TransferKeys
           /\ (NamesOf(input.meta.args) \subseteq TransferKeys) => DumpRows(result) = <<>>
           /\ \A n \in DumpedNames(result) : n \notin TransferKeys

V1SystemSession ==
    /\ Returned("parse_v1_meta")
    /\ route = "generic"
    /\ input.meta.target.kind = "Session"
    /\ Len(input.meta.target.module_bytes) = 0

\* C4: for a new-format session with empty code the rows are no classification row,
\* the fee row, then a dump of exactly the arguments other than amount; with only
\* amount=500 the output is the single Expert row "500 motes".
V1SystemSessionRows ==
    V1SystemSession
        => /\ \A i \in 1..Len(result) : result[i].label \notin {"execution", "Cntrct hash"}
           /\ DumpedNames(result) = NamesOf(input.meta.args) \ {ARG_AMOUNT}
           /\ Len(DumpRows(result)) = 2 * Cardinality(NamesOf(input.meta.args) \ {ARG_AMOUNT})
           /\ (/\ NamesOf(input.meta.args) = {ARG_AMOUNT}
               /\ GetArg(input.meta.args, ARG_AMOUNT) = <<"5", "0", "0">>)
              => /\ Len(result) = 1
                 /\ result[1].value = "500 motes"
                 /\ result[1].expert

Rotate(seq) == IF seq = <<>> THEN seq ELSE Tail(seq) \o <<Head(seq)>>

\* the entry of ra that has exactly i names of ra below its own
EntryAt(ra, i) ==
    CHOOSE e \in {ra[k] : k \in 1..Len(ra)} :
        Cardinality({n \in NamesOf(ra) : StrLess(n, e.name)}) = i

\* C5: the dump of a mapping of N entries has 2N rows, all Expert; rows 2i and 2i+1
\* (from 0) are arg-i-name and arg-i-val of the entry i-th in ascending name order;
\* the same entries in another insertion order give the same rows.
DumpIsSortedPairs ==
    Returned("parse_runtime_args")
        => LET N == Len(input)
           IN  /\ Len(result) = 2 * N
               /\ \A i \in 0..(N - 1) :
                    /\ result[2 * i + 1] =
                         [label |-> "arg-" \o ToString(i) \o "-name",
                          value |-> EntryAt(input, i).name, expert |-> TRUE]
                    /\ result[2 * i + 2] =
                         [label |-> "arg-" \o ToString(i) \o "-val",
                          value |-> Str(EntryAt(input, i).value), expert |-> TRUE]
               /\ ParseRuntimeArgs(Reverse(input)) = result
               /\ ParseRuntimeArgs(Rotate(input)) = result

\* a dump of three entries inserted out of order has been returned
DumpWitness ==
    /\ Returned("parse_runtime_args")
    /\ Len(input) = 3
    /\ StrLess(input[2].name, input[1].name)
    /\ StrLess(input[3].name, input[2].name)
    /\ Len(result) = 6

\* C6: format_amount gives the decimal digits in groups of three counted from the
\* least significant digit, one space between groups, then " motes"; without the
\* spaces the digit part is the decimal representation again.
AmountGroupedInThrees ==
    Returned("format_amount")
        => LET n == Len(input)
               body == SubSeq(result, 1, Len(result) - 6)
           IN  /\ SubSeq(result, Len(result) - 5, Len(result)) = <<" ", "m", "o", "t", "e", "s">>
               /\ SelectSeq(body, LAMBDA ch : ch # " ") = [i \in 1..n |-> ToString(input[i])]
               /\ Len(body) = n + ((n - 1) \div 3)
               /\ \A k \in 1..Len(body) : (body[Len(body) + 1 - k] = " ") <=> (k % 4 = 0)
               /\ input = <<1>> => Str(result) = "1 motes"
               /\ input = <<1, 0, 0, 0>> => Str(result) = "1 000 motes"
               /\ input = <<1, 0, 0, 0, 0>> => Str(result) = "10 000 motes"
               /\ input = <<1, 0, 0, 0, 0, 0, 0, 0, 0, 0, 0>>
                    => Str(result) = "10 000 000 000 motes"

\* ten billion has been formatted with three separators
AmountWitness ==
    /\ Returned("format_amount")
    /\ input = <<1, 0, 0, 0, 0, 0, 0, 0, 0, 0, 0>>
    /\ Str(result) = "10 000 000 000 motes"

HasDigestRow(rs) == \E i \in 1..Len(rs) : rs[i].label = "Cntrct hash"

HasContractKindRow(rs) == \E i \in 1..Len(rs) : rs[i].value = "contract" /\ rs[i].label \in Phases \cup {"execution"}

LegacyEmbedded == Returned("parse_phase") /\ input.item.variant = "ModuleBytes"

V1Embedded ==
    /\ Returned("parse_v1_meta")
    /\ route = "generic"
    /\ input.meta.target.kind = "Session"

\* C7 as stated: empty embedded code never yields a "Cntrct hash" row, in either
\* legacy phase and for a new-format session; a "contract" row with a digest
\* appears only for non-empty bytes.
EmptyCodeNeverDigested ==
    /\ LegacyEmbedded
         => /\ Len(input.item.module_bytes) = 0 => ~HasDigestRow(result)
            /\ HasDigestRow(result) => Len(input.item.module_bytes) > 0
    /\ V1Embedded
         => /\ Len(input.meta.target.module_bytes) = 0 => ~HasDigestRow(result)
            /\ HasDigestRow(result) => Len(input.meta.target.module_bytes) > 0

\* C7 as amended: empty embedded code yields no "Cntrct hash" row in the legacy
\* Payment phase and for a new-format session; in the legacy Session phase empty
\* code is classified "contract" with a digest row like any other code; a digest
\* row appears only for an embedded-code item whose bytes are non-empty or, in the
\* legacy format, whose phase is Session, and always next to a "contract" row.
EmptyCodeDigestedOnlyInLegacySession ==
    /\ Returned("parse_phase")
         => /\ LegacyEmbedded /\ Len(input.item.module_bytes) = 0 /\ input.phase = "Payment"
                 => ~HasDigestRow(result) /\ ~HasContractKindRow(result)
            /\ LegacyEmbedded /\ Len(input.item.module_bytes) = 0 /\ input.phase = "Session"
                 => HasDigestRow(result) /\ HasContractKindRow(result)
            /\ LegacyEmbedded /\ Len(input.item.module_bytes) > 0
                 => HasDigestRow(result) /\ HasContractKindRow(result)
            /\ HasDigestRow(result)
                 => /\ input.item.variant = "ModuleBytes"
                    /\ Len(input.item.module_bytes) > 0 \/ input.phase = "Session"
    /\ Returned("parse_v1_meta") /\ route = "generic"
         => /\ V1Embedded /\ Len(input.meta.target.module_bytes) = 0
                 => ~HasDigestRow(result) /\ ~HasContractKindRow(result)
            /\ V1Embedded /\ Len(input.meta.target.module_bytes) > 0
                 => HasDigestRow(result) /\ HasContractKindRow(result)
            /\ HasDigestRow(result)
                 => /\ input.meta.target.kind = "Session"
                    /\ Len(input.meta.target.module_bytes) > 0

\* an empty payment item has been classified "system", without a digest
SystemPaymentWitness ==
    /\ LegacyEmbedded
    /\ Len(input.item.module_bytes) = 0
    /\ input.phase = "Payment"
    /\ result[1] = [label |-> "Payment", value |-> "system", expert |-> FALSE]
    /\ ~HasDigestRow(result)

LegacyAuctionItem ==
    /\ op = "parse_phase"
    /\ input.item.variant \in StoredVariants
    /\ input.item.entry_point \in {"delegate", "undelegate"}

\* the kind tag deploy_type gives a stored-contract variant
KindTag(variant) ==
    CASE variant = "StoredContractByHash" -> "by-hash"
      [] variant = "StoredContractByName" -> "by-name"
      [] variant = "StoredVersionedContractByHash" -> "by-hash-versioned"
      [] variant = "StoredVersionedContractByName" -> "by-name-versioned"

ExpectedStakeRows(args) ==
    (IF HasArg(args, "delegator")
        THEN << [label |-> "delegator", value |-> Str(GetArg(args, "delegator")), expert |-> FALSE] >>
        ELSE <<>>)
    \o (IF HasArg(args, "validator")
        THEN << [label |-> "validator", value |-> Str(GetArg(args, "validator")), expert |-> FALSE] >>
        ELSE <<>>)
    \o (IF HasArg(args, ARG_AMOUNT)
        THEN << [label |-> "amount",
                 value |-> Str(FormatAmount(FromDecStr(GetArg(args, ARG_AMOUNT)).val)),
                 expert |-> FALSE] >>
        ELSE <<>>)

\* C8: a legacy stored-contract item whose entry point is literally "delegate" or
\* "undelegate" goes to auction formatting whatever contract it names; the rows are
\* "Auction" = the entry point (Regular), the classification rows all Expert, then
\* delegator, validator, amount (Regular, each only if present), and no
\* entry-point row.
AuctionRows ==
    /\ LegacyAuctionItem /\ outcome # "pending"
         => route = IF input.item.entry_point = "delegate"
                    THEN "parse_delegation" ELSE "parse_undelegation"
    /\ LegacyAuctionItem /\ outcome = "returned"
         => LET item == input.item
                k == IF item.variant \in {"StoredVersionedContractByHash",
                                          "StoredVersionedContractByName"} THEN 3 ELSE 2
            IN  /\ Len(result) >= 1 + k
                /\ result[1] = [label |-> "Auction", value |-> item.entry_point, expert |-> FALSE]
                /\ \A i \in 2..(1 + k) : result[i].expert
                /\ result[2].value = KindTag(item.variant)
                /\ result[3].label \in {"address", "name"}
                /\ result[3].value = IF result[3].label = "address" THEN item.hash ELSE item.name
                /\ k = 3 => result[4].label = "version"
                /\ SubSeq(result, k + 2, Len(result)) = ExpectedStakeRows(item.args)
                /\ \A i \in 1..Len(result) : result[i].label # "entry-point"

\* an undelegate call on a contract other than the auction has been formatted, with
\* all three staking arguments
AuctionWitness ==
    /\ LegacyAuctionItem
    /\ outcome = "returned"
    /\ input.item.variant = "StoredVersionedContractByName"
    /\ input.item.name = "other"
    /\ input.item.entry_point = "undelegate"
    /\ input.phase = "Payment"
    /\ {"delegator", "validator", ARG_AMOUNT} \subseteq NamesOf(input.item.args)
    /\ Len(result) = 7

\* a non-negative decimal integer literal
IsDecimalLiteral(s) ==
    /\ Len(s) > 0
    /\ \A i \in 1..Len(s) : s[i] \in {"0", "1", "2", "3", "4", "5", "6", "7", "8", "9"}

\* the dispatch paths that call parse_amount: legacy auction formatting, legacy
\* system payment, legacy native transfer; new-format native transfer, stored
\* target, session with code
AppliesParseAmount ==
    \/ /\ op = "parse_phase"
       /\ \/ input.item.variant \in StoredVariants
             /\ input.item.entry_point \in {"delegate", "undelegate"}
          \/ input.item.variant = "Transfer"
          \/ /\ input.item.variant = "ModuleBytes"
             /\ input.phase = "Payment"
             /\ Len(input.item.module_bytes) = 0
    \/ /\ op = "parse_v1_meta"
       /\ input.decodable
       /\ input.meta.named
       /\ input.meta.entry_point \notin AuctionEntryPoints
       /\ \/ input.meta.target.kind = "Native" /\ input.meta.entry_point = "Transfer"
          \/ input.meta.target.kind = "Stored"
          \/ /\ input.meta.target.kind = "Session"
             /\ Len(input.meta.target.module_bytes) > 0

V1Decoded == op = "parse_v1_meta" /\ outcome # "pending" /\ input.decodable

\* C10: parse_v1_meta hands Delegate, Undelegate and Redelegate to the auction
\* formatters before looking at the target, whatever the target; for any other
\* entry point a native target is accepted only with Transfer, and a native target
\* with another entry point aborts the parse instead of returning rows.
V1EntryPointRouting ==
    V1Decoded
        => LET meta == input.meta
           IN  /\ meta.entry_point = "Delegate" => route = "parse_delegation"
               /\ meta.entry_point = "Undelegate" => route = "parse_undelegation"
               /\ meta.entry_point = "Redelegate" => route = "parse_redelegation"
               /\ meta.entry_point \notin AuctionEntryPoints => route = "generic"
               /\ meta.entry_point \in AuctionEntryPoints
                    => cause # "unsupported entry point in native transaction"
               /\ (/\ meta.entry_point \notin AuctionEntryPoints
                   /\ meta.target.kind = "Native"
                   /\ meta.entry_point # "Transfer")
                    => outcome = "panicked" /\ result = <<>>
               /\ (/\ meta.entry_point \notin AuctionEntryPoints
                   /\ meta.target.kind = "Native"
                   /\ meta.named
                   /\ meta.entry_point # "Transfer")
                    => cause = "unsupported entry point in native transaction"
               /\ (/\ meta.target.kind = "Native"
                   /\ meta.entry_point = "Transfer"
                   /\ meta.named
                   /\ ~HasArg(meta.args, ARG_AMOUNT))
                    => outcome = "returned"

\* a native transaction with the AddBid entry point and well-formed named
\* arguments has aborted
V1NativeFaultWitness ==
    /\ V1Decoded
    /\ input.meta.target.kind = "Native"
    /\ input.meta.entry_point = "AddBid"
    /\ input.meta.named
    /\ NamesOf(input.meta.args) = {ARG_TO, ARG_AMOUNT}
    /\ GetArg(input.meta.args, ARG_AMOUNT) = <<"1", "0", "0", "0">>
    /\ outcome = "panicked"
    /\ cause = "unsupported entry point in native transaction"

EntriesOf(ra) == {ra[i] : i \in 1..Len(ra)}

\* the keys the removal that was called consumes
ConsumedKeys ==
    IF op \in {"remove_amount_arg", "v1::remove_amount_arg"} THEN {ARG_AMOUNT} ELSE TransferKeys

\* the removal that was called, applied once more
RemoveAgain(args) ==
    CASE op = "remove_amount_arg" -> RemoveAmountArg(args)
      [] op = "remove_transfer_args" -> RemoveTransferArgs(args)
      [] op = "v1::remove_amount_arg" -> V1RemoveAmountArg(args)
      [] op = "v1::remove_transfer_args" -> V1RemoveTransferArgs(args)

\* C11: remove_amount_arg returns the mapping without amount and
\* remove_transfer_args the mapping without to, source, target, amount, id: the
\* key set is the input's minus the consumed keys, every other key keeps its
\* value, the mapping handed in is as it was, and with no consumed key present
\* the mapping comes back with the same entries (so a second removal changes
\* nothing).
RemovalTakesOnlyConsumedKeys ==
    (op \in RemovalOps /\ outcome # "pending")
        => /\ outcome = "returned"
           /\ NamesOf(result) = NamesOf(input) \ ConsumedKeys
           /\ Len(result) = Cardinality(NamesOf(result))
           /\ \A n \in NamesOf(result) : GetArg(result, n) = GetArg(input, n)
           /\ EntriesOf(result) \subseteq EntriesOf(input)
           /\ (NamesOf(input) \cap ConsumedKeys = {}) => EntriesOf(result) = EntriesOf(input)
           /\ EntriesOf(RemoveAgain(result)) = EntriesOf(result)
           /\ RemoveAgain(result) = result

\* remove_transfer_args has been given all five transfer keys and two others, and
\* returned the two others
RemovalWitness ==
    /\ op = "remove_transfer_args"
    /\ outcome = "returned"
    /\ NamesOf(input) = TransferKeys \cup {"delegator", "memo"}
    /\ NamesOf(result) = {"delegator", "memo"}

StructuralFaults == {"unexpected type for delegate", "unexpected type for undelegate"}

\* C12: parse_phase hands an item to parse_delegation or parse_undelegation only if
\* it is one of the four stored-contract variants, so their "unexpected type"
\* abort never fires from parse_phase; embedded-code and native-transfer items
\* are never taken for delegate or undelegate, whatever their arguments.
StructuralFaultUnreachable ==
    Finished("parse_phase")
        => /\ cause \notin StructuralFaults
           /\ route \in {"parse_delegation", "parse_undelegation"}
                => input.item.variant \in StoredVariants
           /\ input.item.variant \in {"ModuleBytes", "Transfer"} => route = "generic"

\* a native transfer carrying the staking arguments has gone through the ordinary
\* framing and returned
StructuralFaultWitness ==
    /\ Returned("parse_phase")
    /\ input.item.variant = "Transfer"
    /\ {"delegator", "validator", ARG_AMOUNT} \subseteq NamesOf(input.item.args)
    /\ route = "generic"
    /\ result[1].value = "native transfer"

OtherPhase(phase) == IF phase = "Payment" THEN "Session" ELSE "Payment"

\* C13: for a legacy stored-contract item with entry point "delegate" or
\* "undelegate" the phase given to parse_phase does not show in the output: the
\* call with the other phase gives the same rows (or aborts alike), and the kind
\* row of the classification is labelled "Session" even for the payment item.
AuctionIgnoresPhase ==
    (LegacyAuctionItem /\ outcome # "pending")
        => LET other == ParsePhase(input.item, OtherPhase(input.phase))
           IN  /\ other.via = route
               /\ other.res.panic = (outcome = "panicked")
               /\ other.res.elems = result
               /\ outcome = "returned"
                    => /\ result[2].label = "Session"
                       /\ \A i \in 1..Len(result) : result[i].label # "Payment"

\* a delegate call given as the payment item has been formatted with its kind row
\* labelled Session
AuctionPhaseWitness ==
    /\ LegacyAuctionItem
    /\ outcome = "returned"
    /\ input.phase = "Payment"
    /\ input.item.entry_point = "delegate"
    /\ input.item.variant = "StoredContractByHash"
    /\ result[2] = [label |-> "Session", value |-> "by-hash", expert |-> TRUE]

====
